---- MODULE Spec2Model ----
(***************************************************************************)
(* Babble whisper service: the Transcriber lifecycle wrapper               *)
(* (whisper-service/transcribe.py) and its FastAPI surface                 *)
(* (whisper-service/server.py).                                            *)
(*                                                                         *)
(* Two specifications share the state:                                     *)
(*   Spec     the HTTP service: requests arrive, the three `async def`     *)
(*            handlers run on the single event loop of uvicorn.run(app);   *)
(*            a handler keeps the loop from its dispatch to its next       *)
(*            `await` or its return, the blocking engine calls included.   *)
(*   LibSpec  the Transcriber object driven directly, one completed call   *)
(*            after the other (load_model, ensure_loaded, transcribe,      *)
(*            unload, idle_seconds), time passing during and between.      *)
(*                                                                         *)
(* Conventions: a Python string is a sequence of string chunks, one        *)
(* character per chunk where the characters matter (a file name, a         *)
(* transcribed text), so "" is << >>; an optional value is a sequence of   *)
(* length 0 (None) or 1; time.time() is the variable clock, counted in     *)
(* whole milliseconds and never 0.                                         *)
(***************************************************************************)
EXTENDS Integers, Sequences, FiniteSets, TLC

\* ------------------------------------------------------------------ bounds

\* Number of HTTP requests of one behaviour of Spec.
MaxReq == 2

\* Largest value of the clock in Spec.
MaxClock == 2

\* Number of direct calls of one behaviour of LibSpec.
MaxCalls == 3

\* Largest value of the clock in LibSpec.
MaxLibClock == 3

\* ----------------------------------------------------------------- helpers

None == <<>>

Some(x) == <<x>>

\* Python's `a or b` on an optional string: None and "" are falsy.
OrElse(opt, default) ==
    IF opt = None \/ opt[1] = <<>> THEN default ELSE opt[1]

\* str.rfind(c), 1-based; 0 when c does not occur.
RFind(s, c) ==
    LET hits == {i \in 1..Len(s) : s[i] = c}
    IN  IF hits = {} THEN 0 ELSE CHOOSE i \in hits : \A j \in hits : j <= i

\* The characters str.lower() changes, of those a string of the module can
\* hold (U+0000 to U+00FF): the upper-case letters A to Z and À to Þ.
UpperCase ==
    << "A", "B", "C", "D", "E", "F", "G", "H", "I", "J", "K", "L", "M",
       "N", "O", "P", "Q", "R", "S", "T", "U", "V", "W", "X", "Y", "Z",
       "À", "Á", "Â", "Ã", "Ä", "Å", "Æ", "Ç", "È", "É", "Ê", "Ë", "Ì",
       "Í", "Î", "Ï", "Ð", "Ñ", "Ò", "Ó", "Ô", "Õ", "Ö", "Ø", "Ù", "Ú",
       "Û", "Ü", "Ý", "Þ" >>

\* Their lower-case letters, in the same order.
LowerCase ==
    << "a", "b", "c", "d", "e", "f", "g", "h", "i", "j", "k", "l", "m",
       "n", "o", "p", "q", "r", "s", "t", "u", "v", "w", "x", "y", "z",
       "à", "á", "â", "ã", "ä", "å", "æ", "ç", "è", "é", "ê", "ë", "ì",
       "í", "î", "ï", "ð", "ñ", "ò", "ó", "ô", "õ", "ö", "ø", "ù", "ú",
       "û", "ü", "ý", "þ" >>

\* str.lower() of one character: an upper-case letter becomes its
\* lower-case letter, any other character stays.
LowerChar(c) ==
    IF \E i \in 1..Len(UpperCase) : UpperCase[i] = c
    THEN LowerCase[CHOOSE i \in 1..Len(UpperCase) : UpperCase[i] = c]
    ELSE c

lower(s) == [i \in 1..Len(s) |-> LowerChar(s[i])]

\* PurePath.name: the last component of the path, where separators that
\* repeat or end the path and components "." do not count ("" for "", "."
\* and "/"; "a.wav" for "a.wav//" and "a.wav/.").
RECURSIVE PathName(_)
PathName(s) ==
    IF s = <<>> THEN <<>>
    ELSE IF s[Len(s)] = "/" THEN PathName(SubSeq(s, 1, Len(s) - 1))
    ELSE LET k    == RFind(s, "/")
             last == SubSeq(s, k + 1, Len(s))
         IN  IF last = <<".">> THEN PathName(SubSeq(s, 1, k)) ELSE last

\* PurePath.suffix: from the last dot of the name, when that dot is neither
\* the first nor the last character of the name.
PathSuffix(s) ==
    LET name == PathName(s)
        i    == RFind(name, ".")
    IN  IF 1 < i /\ i < Len(name) THEN SubSeq(name, i, Len(name)) ELSE <<>>

\* The characters str.isspace() holds for, of those a string of the module
\* can hold (U+0000 to U+00FF): the blank, \t, \n, \r, \f, and, written
\* as they are, VT, FS, GS, RS, US, NEL and the no-break space.
Whitespace ==
    {" ", "\t", "\n", "\r", "\f",
     "", "", "", "", "", "", " "}

\* str.strip(): without the white space at both ends.
RECURSIVE strip(_)
strip(s) ==
    IF Len(s) > 0 /\ s[1] \in Whitespace THEN strip(Tail(s))
    ELSE IF Len(s) > 0 /\ s[Len(s)] \in Whitespace
    THEN strip(SubSeq(s, 1, Len(s) - 1))
    ELSE s

\* dict.get(key, default).
get(d, key, default) == IF key \in DOMAIN d THEN d[key] ELSE default

\* ----------------------------------------------------- the opaque engine

\* Exceptions the engine (or the upload) may raise.  An exception is an
\* object of the engine's, known to the service by what its handlers do
\* with it: cls names its class, is_exception says whether it is an
\* instance of Exception (what `except Exception` catches), and str is the
\* string its own __str__ returns.
Exceptions ==
    { [cls |-> "RuntimeError", is_exception |-> TRUE, str |-> <<"decode failed">>],
      [cls |-> "KeyboardInterrupt", is_exception |-> FALSE, str |-> <<>>] }

\* str(e): the string the exception's __str__ returns.
Str(e) == e.str

\* Text of the response to an exception no handler catches.
InternalServerError == <<"Internal Server Error">>

\* Dicts mlx_whisper.transcribe may return.
EngineResults ==
    { [text |-> <<" ", "h", "i", "\n">>, segments |-> <<"seg0">>, language |-> <<"en">>],
      [segments |-> <<>>] }

Returns(res) == [raised |-> None, value |-> Some(res)]

Raises(e) == [raised |-> Some(e), value |-> None]

\* Outcomes of one blocking mlx_whisper.transcribe call.
EngineOutcomes ==
    {Returns(res) : res \in EngineResults} \cup {Raises(e) : e \in Exceptions}

\* Temporary files: the upload of request r, the silent input of a load
\* made for r.  Each has a name of its own.
UploadFile(r, ext) == [owner |-> r, suffix |-> ext, silent |-> FALSE]

SilentFile(r) == [owner |-> r, suffix |-> <<".", "w", "a", "v">>, silent |-> TRUE]

\* The language of the synthetic call of load_model.
LoadLanguage == <<"en">>

\* One completed engine call, as logged: who caused it, its arguments, the
\* exception it raised and the dict it returned to a caller that reads it.
EngineCall(by, audio, language, o) ==
    [by |-> by, audio |-> audio, language |-> language,
     raised |-> o.raised, value |-> o.value]

\* An outcome whose returned dict the caller drops.
Discard(o) == [o EXCEPT !.value = None]

\* ------------------------------------------------------------- Transcriber

\* Transcriber.__init__
NewTranscriber == [model_loaded |-> FALSE, last_used |-> 0]

is_loaded(t) == t.model_loaded

\* Whether load_model reaches its engine call.
load_calls_engine(t) == ~t.model_loaded

\* A load_model that sets the flag before the engine call it waits for.
load_model_flag_first(t, by, o, now) ==
    IF t.model_loaded
    THEN [t |-> t, raised |-> None, calls |-> <<>>]
    ELSE IF o.raised = None
    THEN [t      |-> [model_loaded |-> TRUE, last_used |-> now],
          raised |-> None,
          calls  |-> <<EngineCall(by, SilentFile(by), LoadLanguage, Discard(o))>>]
    ELSE [t      |-> [t EXCEPT !.model_loaded = TRUE],
          raised |-> o.raised,
          calls  |-> <<EngineCall(by, SilentFile(by), LoadLanguage, Discard(o))>>]

\* A load_model without its early return.
load_model_always_loads(t, by, o, now) ==
    IF o.raised = None
    THEN [t      |-> [model_loaded |-> TRUE, last_used |-> now],
          raised |-> None,
          calls  |-> <<EngineCall(by, SilentFile(by), LoadLanguage, Discard(o))>>]
    ELSE [t      |-> t,
          raised |-> o.raised,
          calls  |-> <<EngineCall(by, SilentFile(by), LoadLanguage, Discard(o))>>]

\* A load_model whose last_used assignment sits in the `finally`.
load_model_stamps_on_failure(t, by, o, now) ==
    IF t.model_loaded
    THEN [t |-> t, raised |-> None, calls |-> <<>>]
    ELSE [t      |-> [model_loaded |-> (o.raised = None), last_used |-> now],
          raised |-> o.raised,
          calls  |-> <<EngineCall(by, SilentFile(by), LoadLanguage, Discard(o))>>]

\* load_model: o is the outcome of the synthetic engine call, now the
\* time.time() read after it.  Result: new state, exception raised,
\* engine calls made.
load_model(t, by, o, now) ==
    IF t.model_loaded
    THEN [t |-> t, raised |-> None, calls |-> <<>>]
    ELSE IF o.raised = None
    THEN [t      |-> [model_loaded |-> TRUE, last_used |-> now],
          raised |-> None,
          calls  |-> <<EngineCall(by, SilentFile(by), LoadLanguage, Discard(o))>>]
    ELSE [t      |-> t,
          raised |-> o.raised,
          calls  |-> <<EngineCall(by, SilentFile(by), LoadLanguage, Discard(o))>>]

\* An ensure_loaded that leaves last_used to load_model.
ensure_loaded_no_stamp(t, by, o, now) ==
    IF ~t.model_loaded THEN load_model(t, by, o, now)
    ELSE [t |-> t, raised |-> None, calls |-> <<>>]

\* An ensure_loaded that stamps last_used whether its load raised or not.
ensure_loaded_stamps_always(t, by, o, now) ==
    LET ld == IF ~t.model_loaded THEN load_model(t, by, o, now)
              ELSE [t |-> t, raised |-> None, calls |-> <<>>]
    IN  [ld EXCEPT !.t = [ld.t EXCEPT !.last_used = now]]

\* ensure_loaded: load when not loaded, then stamp last_used.
ensure_loaded(t, by, o, now) ==
    LET ld == IF ~t.model_loaded THEN load_model(t, by, o, now)
              ELSE [t |-> t, raised |-> None, calls |-> <<>>]
    IN  IF ld.raised # None THEN ld
        ELSE [ld EXCEPT !.t = [ld.t EXCEPT !.last_used = now]]

\* The dict transcribe() builds from the engine's.
transcribe_result(raw, language, start, end) ==
    [text            |-> strip(get(raw, "text", <<>>)),
     segments        |-> get(raw, "segments", <<>>),
     language        |-> get(raw, "language", language),
     processing_time |-> end - start]

\* A transcribe that stamps last_used once the real engine call has
\* returned, and not before it.
transcribe_stamp_after(t, by, audio, language, o1, t1, o2, t2) ==
    LET el   == ensure_loaded_no_stamp(t, by, o1, t1)
        real == EngineCall(by, audio, language, o2)
    IN  IF el.raised # None
        THEN [t |-> el.t, raised |-> el.raised, calls |-> el.calls, value |-> None]
        ELSE IF o2.raised # None
        THEN [t |-> el.t, raised |-> o2.raised, calls |-> Append(el.calls, real),
              value |-> None]
        ELSE [t |-> [el.t EXCEPT !.last_used = t2], raised |-> None,
              calls |-> Append(el.calls, real),
              value |-> Some(transcribe_result(o2.value[1], language, t1, t2))]

\* A transcribe that passes the engine the language load_model passes it.
transcribe_fixed_language(t, by, audio, language, o1, t1, o2, t2) ==
    LET el   == ensure_loaded(t, by, o1, t1)
        real == EngineCall(by, audio, LoadLanguage, o2)
    IN  IF el.raised # None
        THEN [t |-> el.t, raised |-> el.raised, calls |-> el.calls, value |-> None]
        ELSE IF o2.raised # None
        THEN [t |-> el.t, raised |-> o2.raised, calls |-> Append(el.calls, real),
              value |-> None]
        ELSE [t |-> el.t, raised |-> None, calls |-> Append(el.calls, real),
              value |-> Some(transcribe_result(o2.value[1], language, t1, t2))]

\* transcribe(audio_path, language): o1 and t1 are the outcome of the lazy
\* load's engine call and the time it ends (the time of the call when the
\* model is loaded); o2 and t2 those of the real engine call.
transcribe(t, by, audio, language, o1, t1, o2, t2) ==
    LET el   == ensure_loaded(t, by, o1, t1)
        real == EngineCall(by, audio, language, o2)
    IN  IF el.raised # None
        THEN [t |-> el.t, raised |-> el.raised, calls |-> el.calls, value |-> None]
        ELSE IF o2.raised # None
        THEN [t |-> el.t, raised |-> o2.raised, calls |-> Append(el.calls, real),
              value |-> None]
        ELSE [t |-> el.t, raised |-> None, calls |-> Append(el.calls, real),
              value |-> Some(transcribe_result(o2.value[1], language, t1, t2))]

\* An idle_seconds with its difference the wrong way round.
idle_seconds_reversed(t, now) == IF t.last_used = 0 THEN 0 ELSE t.last_used - now

\* idle_seconds at time now.
idle_seconds(t, now) == IF t.last_used = 0 THEN 0 ELSE now - t.last_used

\* An unload that clears the timestamp alone.
unload_timestamp_only(t) == [t EXCEPT !.last_used = 0]

\* An unload that clears the flag alone.
unload_flag_only(t) == [t EXCEPT !.model_loaded = FALSE]

unload(t) == [model_loaded |-> FALSE, last_used |-> 0]

\* ------------------------------------------------------------ HTTP surface

\* config["model"]["name"] and config["model"]["language"].
ModelName == "mlx-community/whisper-large-v3-turbo"

ConfigLanguage == <<"zh">>

allowed_extensions ==
    { <<".", "w", "a", "v">>, <<".", "m", "4", "a">>, <<".", "m", "p", "3">>,
      <<".", "f", "l", "a", "c">>, <<".", "o", "g", "g">> }

\* File names a client may upload (None: the part carries no file name).
FileNames ==
    { None,
      Some(<<"a", ".", "w", "a", "v">>),
      Some(<<"A", ".", "W", "A", "V">>),
      Some(<<"b", ".", "a", ".", "W", "a", "v">>),
      Some(<<"f", ".", "F", "L", "A", "C">>),
      Some(<<".", "w", "a", "v">>),
      Some(<<"c", ".", "t", "x", "t">>),
      Some(<<"w", "a", "v">>),
      Some(<<"d", ".", "w", "a", "v", "/", ".">>),
      Some(<<"e", ".", "w", "a", "v", ".">>) }

\* Values of the optional `language` form field.
Languages == { None, Some(<<>>), Some(<<"en">>) }

Kinds == {"health", "warmup", "transcribe"}

RequestIds == 1..MaxReq

\* Responses: a JSON body, an HTTPException, or what follows an exception
\* that left the handler: the server's 500 for an Exception; for any other
\* BaseException (KeyboardInterrupt, SystemExit) the exception leaves the
\* application as well and no answer of the application is sent
\* (status_code 0); what the server and the process do with it is theirs,
\* and the service is let go on, which adds behaviours and removes none.
JSONResponse(content) == [status_code |-> 200, via |-> "json", body |-> content]

HTTPException(status_code, detail) ==
    [status_code |-> status_code, via |-> "HTTPException", body |-> [detail |-> detail]]

Unhandled(e) ==
    IF e.is_exception
    THEN [status_code |-> 500, via |-> "unhandled",
          body |-> [detail |-> InternalServerError]]
    ELSE [status_code |-> 0, via |-> "escaped", body |-> [detail |-> <<>>]]

\* file_ext cut at the last dot of the name wherever that dot is.
file_ext_any_dot(filename) ==
    LET name == PathName(OrElse(filename, <<>>))
        i    == RFind(name, ".")
    IN  IF i = 0 THEN <<>> ELSE lower(SubSeq(name, i, Len(name)))

\* file_ext of transcribe_audio.
file_ext(filename) == lower(PathSuffix(OrElse(filename, <<>>)))

\* The extension check of transcribe_audio.
extension_allowed(ext) == ext \in allowed_extensions

unsupported_detail(ext) ==
    <<"Unsupported file type: ">> \o ext \o <<". Allowed: ", "allowed_extensions">>

\* lang of transcribe_audio.
request_language(language) == OrElse(language, ConfigLanguage)

\* A health body that reports the model as loaded whatever the flag.
health_check_always_loaded(t) ==
    [status |-> "ready", model |-> ModelName, model_loaded |-> TRUE]

\* Body of GET /health.
health_check(t) ==
    [status |-> "ready", model |-> ModelName, model_loaded |-> is_loaded(t)]

\* A warmup without its is_loaded check.
warmup_always_loads(t) == FALSE

\* Whether POST /warmup answers without loading.
warmup_fast_path(t) == is_loaded(t)

warmup_body(status) == [status |-> status, model |-> ModelName]

\* A bare `except:` clause, which catches every BaseException.
transcribe_response_bare_except(raised, value) ==
    IF raised = None
    THEN JSONResponse(value[1])
    ELSE HTTPException(500, Str(raised[1]))

\* The answer of transcribe_audio to the end of transcriber.transcribe:
\* the result, or a 500 with str(e) for any exception `except Exception`
\* catches; any other leaves the handler.
transcribe_response(raised, value) ==
    IF raised = None
    THEN JSONResponse(value[1])
    ELSE IF raised[1].is_exception
    THEN HTTPException(500, Str(raised[1]))
    ELSE Unhandled(raised[1])

\* A cleanup that removes nothing.
unlink_nothing(fs, f) == fs

\* Path.unlink(missing_ok=True) in the `finally` of transcribe_audio and
\* of load_model: the files left.
unlink(fs, f) == fs \ {f}

\* ------------------------------------------------------------------- state

VARIABLES
    transcriber,   \* the global Transcriber: [model_loaded, last_used]
    clock,         \* time.time()
    engine_calls,  \* completed mlx_whisper.transcribe calls, in order
    files,         \* temporary files that exist on disk
    reqs,          \* the HTTP requests: inputs, handler position, response
    running,       \* request whose handler holds the event loop, 0 when free
    lib            \* LibSpec: the last completed direct call

vars == <<transcriber, clock, engine_calls, files, reqs, running, lib>>

\* A request nobody has sent yet.  upload is audio.filename of the parsed
\* form transcribe_audio is called with: None before the call and once the
\* request is past `await audio.read()`, Some(name) in between and in a
\* rejected request; ext, lang and start are the locals file_ext, lang and
\* start_time; during: a GET /health sent while a handler was inside an
\* engine call, until it is answered.
NoRequest ==
    [pc |-> "none", kind |-> "health", upload |-> None,
     ext |-> <<>>, lang |-> <<>>, first_use |-> FALSE, during |-> FALSE,
     start |-> 0, response |-> None]

\* LibSpec, before the first call.  n: calls made; op, pre, start, end,
\* raised, value: the last call that may change the state, the state it
\* found, the clock at its call and at its return, and how it ended;
\* language: the language argument of a transcribe; idle: the idle_seconds
\* read since that call, in order.
NoCall ==
    [n |-> 0, op |-> "none", pre |-> NewTranscriber, start |-> 0, end |-> 0,
     language |-> <<>>, raised |-> None, value |-> None, idle |-> <<>>]

\* get_transcriber(config["model"]["name"]) at import; no request yet.
Init ==
    /\ transcriber = NewTranscriber
    /\ clock = 1
    /\ engine_calls = <<>>
    /\ files = {}
    /\ reqs = [r \in RequestIds |-> NoRequest]
    /\ running = 0
    /\ lib = NoCall

\* Time passes.
Tick ==
    /\ clock < MaxClock
    /\ clock' = clock + 1
    /\ UNCHANGED <<transcriber, engine_calls, files, reqs, running, lib>>

\* ------------------------------------------------------- Spec: the service

\* Handlers declared `def`, each run in a thread of its own: one starts
\* whatever the others are doing.
loop_free_threaded(owner) == TRUE

\* Whether the event loop can start or resume a handler.  The handlers are
\* coroutines (`async def`) of the one loop of uvicorn.run(app); load_model
\* and transcribe are plain calls in them, so the handler that is inside
\* one (owner) keeps the loop until it returns or raises.
loop_free(owner) == owner = 0

\* The handler of r ends with resp: its parameters and locals are gone.
Respond(r, resp) ==
    [reqs EXCEPT ![r] = [NoRequest EXCEPT !.pc = "done", !.kind = reqs[r].kind,
                                          !.first_use = reqs[r].first_use,
                                          !.response = Some(resp)]]

\* A client sends the next request.  first_use: nothing has used the
\* engine and the model is not loaded when the request is sent; during: it
\* is a GET /health and a handler is inside an engine call.
Arrive(r) ==
    /\ reqs[r].pc = "none"
    /\ \A q \in RequestIds : q < r => reqs[q].pc # "none"
    /\ \E kind \in Kinds :
          reqs' = [reqs EXCEPT ![r] =
                 [NoRequest EXCEPT !.pc = "arrived", !.kind = kind,
                                   !.first_use = (~is_loaded(transcriber)
                                                  /\ engine_calls = <<>>),
                                   !.during = (kind = "health"
                                               /\ running # 0)]]
    /\ UNCHANGED <<transcriber, clock, engine_calls, files, running, lib>>

\* GET /health.
HealthCheck(r) ==
    /\ loop_free(running)
    /\ reqs[r].pc = "arrived" /\ reqs[r].kind = "health"
    /\ reqs' = Respond(r, JSONResponse(health_check(transcriber)))
    /\ UNCHANGED <<transcriber, clock, engine_calls, files, running, lib>>

\* POST /warmup up to the blocking engine call of load_model (or to the
\* already_loaded answer).
Warmup(r) ==
    /\ loop_free(running)
    /\ reqs[r].pc = "arrived" /\ reqs[r].kind = "warmup"
    /\ IF warmup_fast_path(transcriber)
       THEN /\ reqs' = Respond(r, JSONResponse(warmup_body("already_loaded")))
            /\ UNCHANGED <<files, running>>
       ELSE IF load_calls_engine(transcriber)
       THEN /\ reqs' = [reqs EXCEPT ![r].pc = "load"]
            /\ files' = files \cup {SilentFile(r)}
            /\ running' = r
       ELSE /\ reqs' = Respond(r, JSONResponse(warmup_body("loaded")))
            /\ UNCHANGED <<files, running>>
    /\ UNCHANGED <<transcriber, clock, engine_calls, lib>>

\* POST /warmup: the engine call of load_model returns or raises.
WarmupLoaded(r) ==
    /\ running = r
    /\ reqs[r].pc = "load" /\ reqs[r].kind = "warmup"
    /\ \E o \in EngineOutcomes :
          LET ld == load_model(transcriber, r, o, clock)
          IN  /\ transcriber' = ld.t
              /\ engine_calls' = engine_calls \o ld.calls
              /\ reqs' = Respond(r, IF ld.raised = None
                                    THEN JSONResponse(warmup_body("loaded"))
                                    ELSE Unhandled(ld.raised[1]))
    /\ files' = unlink(files, SilentFile(r))
    /\ running' = 0
    /\ UNCHANGED <<clock, lib>>

\* POST /transcribe, called with the parsed form of the request (any file
\* name, any language), from dispatch to `await audio.read()`: the
\* extension check and the creation of the temporary file.  A rejected
\* request keeps the file name its answer was computed from.
TranscribeAudio(r) ==
    /\ loop_free(running)
    /\ reqs[r].pc = "arrived" /\ reqs[r].kind = "transcribe"
    /\ \E filename \in FileNames, language \in Languages :
          LET lang == request_language(language)
              ext  == file_ext(filename)
          IN  IF ~extension_allowed(ext)
              THEN /\ reqs' = [Respond(r, HTTPException(400, unsupported_detail(ext)))
                                  EXCEPT ![r].upload = Some(filename)]
                   /\ UNCHANGED files
              ELSE /\ reqs' = [reqs EXCEPT ![r].pc = "reading",
                                           ![r].upload = Some(filename),
                                           ![r].ext = ext, ![r].lang = lang]
                   /\ files' = files \cup {UploadFile(r, ext)}
    /\ UNCHANGED <<transcriber, clock, engine_calls, running, lib>>

\* transcriber.transcribe up to its first blocking engine call: the
\* synthetic one of load_model, or the real one after ensure_loaded.
BeginTranscribe(r) ==
    IF load_calls_engine(transcriber)
    THEN /\ reqs' = [reqs EXCEPT ![r].pc = "load", ![r].upload = None]
         /\ files' = files \cup {SilentFile(r)}
         /\ UNCHANGED transcriber
    ELSE /\ transcriber' = ensure_loaded(transcriber, r, Returns(<<>>), clock).t
         /\ reqs' = [reqs EXCEPT ![r].pc = "real", ![r].start = clock,
                                  ![r].upload = None]
         /\ UNCHANGED files

\* POST /transcribe resumed after `await audio.read()`: the read, or the
\* tmp.write after it, raises (the exception leaves the `with` block, which
\* closes the file it was told not to delete, and then the handler, whose
\* `try` has not begun), or the bytes are written and
\* transcriber.transcribe is called.
TranscribeRead(r) ==
    /\ loop_free(running)
    /\ reqs[r].pc = "reading"
    /\ \/ /\ \E e \in Exceptions : reqs' = Respond(r, Unhandled(e))
          /\ UNCHANGED <<transcriber, files, running>>
       \/ /\ BeginTranscribe(r)
          /\ running' = r
    /\ UNCHANGED <<clock, engine_calls, lib>>

\* POST /transcribe: the engine call of the lazy load returns or raises.
TranscribeLoaded(r) ==
    /\ running = r
    /\ reqs[r].pc = "load" /\ reqs[r].kind = "transcribe"
    /\ \E o \in EngineOutcomes :
          LET el  == ensure_loaded(transcriber, r, o, clock)
              ext == reqs[r].ext
          IN  /\ transcriber' = el.t
              /\ engine_calls' = engine_calls \o el.calls
              /\ IF el.raised = None
                 THEN /\ reqs' = [reqs EXCEPT ![r].pc = "real", ![r].start = clock]
                      /\ files' = unlink(files, SilentFile(r))
                      /\ UNCHANGED running
                 ELSE /\ reqs' = Respond(r, transcribe_response(el.raised, None))
                      /\ files' = unlink(unlink(files, SilentFile(r)), UploadFile(r, ext))
                      /\ running' = 0
    /\ UNCHANGED <<clock, lib>>

\* POST /transcribe: the real engine call returns or raises; the answer,
\* and the `finally` that removes the temporary file.
TranscribeDone(r) ==
    /\ running = r
    /\ reqs[r].pc = "real"
    /\ \E o \in EngineOutcomes :
          LET ext  == reqs[r].ext
              lang == reqs[r].lang
          IN  /\ engine_calls' =
                    Append(engine_calls, EngineCall(r, UploadFile(r, ext), lang, o))
              /\ reqs' = Respond(r,
                    transcribe_response(o.raised,
                        IF o.raised = None
                        THEN Some(transcribe_result(o.value[1], lang,
                                                    reqs[r].start, clock))
                        ELSE None))
              /\ files' = unlink(files, UploadFile(r, ext))
    /\ running' = 0
    /\ UNCHANGED <<transcriber, clock, lib>>

Next ==
    \/ Tick
    \/ \E r \in RequestIds : Arrive(r)
    \/ \E r \in RequestIds : HealthCheck(r)
    \/ \E r \in RequestIds : Warmup(r)
    \/ \E r \in RequestIds : WarmupLoaded(r)
    \/ \E r \in RequestIds : TranscribeAudio(r)
    \/ \E r \in RequestIds : TranscribeRead(r)
    \/ \E r \in RequestIds : TranscribeLoaded(r)
    \/ \E r \in RequestIds : TranscribeDone(r)

Spec == Init /\ [][Next]_vars

\* ------------------------------------------ LibSpec: the Transcriber alone

\* The caller of LibSpec, in the `by` of the engine calls it causes.
Direct == 0

LibAudio == UploadFile(Direct, <<".", "w", "a", "v">>)

\* Languages of a direct transcribe call ("zh" is the default).
LibLanguages == { <<"zh">>, <<"en">> }

\* Times at which a call begun now may end: any later time when it waits
\* for the synthetic engine call of a load, now when it makes none.
LoadEnds == IF load_calls_engine(transcriber) THEN clock..MaxLibClock ELSE {clock}

\* Outcomes of that synthetic call (one, unused, when none is made).
LoadOutcomes ==
    IF load_calls_engine(transcriber) THEN EngineOutcomes ELSE {Returns(<<>>)}

LibCall(op, res, end) ==
    [n |-> lib.n + 1, op |-> op, pre |-> transcriber, start |-> clock,
     end |-> end, language |-> <<>>, raised |-> res.raised, value |-> res.value,
     idle |-> <<>>]

\* load_model(), begun now and ended at t1.
LibLoadModel ==
    /\ lib.n < MaxCalls
    /\ \E o \in LoadOutcomes, end \in LoadEnds :
          LET ld  == load_model(transcriber, Direct, o, end)
          IN  /\ transcriber' = ld.t
              /\ engine_calls' = engine_calls \o ld.calls
              /\ clock' = end
              /\ lib' = LibCall("load_model",
                                [raised |-> ld.raised, value |-> None], end)
    /\ UNCHANGED <<files, reqs, running>>

\* ensure_loaded().
LibEnsureLoaded ==
    /\ lib.n < MaxCalls
    /\ \E o \in LoadOutcomes, end \in LoadEnds :
          LET el  == ensure_loaded(transcriber, Direct, o, end)
          IN  /\ transcriber' = el.t
              /\ engine_calls' = engine_calls \o el.calls
              /\ clock' = end
              /\ lib' = LibCall("ensure_loaded",
                                [raised |-> el.raised, value |-> None], end)
    /\ UNCHANGED <<files, reqs, running>>

\* transcribe(LibAudio, language).
LibTranscribe ==
    /\ lib.n < MaxCalls
    /\ \E language \in LibLanguages, o1 \in LoadOutcomes, o2 \in EngineOutcomes,
          t1 \in LoadEnds :
          \E t2 \in t1..MaxLibClock :
             LET tr  == transcribe(transcriber, Direct, LibAudio, language,
                                   o1, t1, o2, t2)
                 end == IF ensure_loaded(transcriber, Direct, o1, t1).raised # None
                        THEN t1 ELSE t2
             IN  /\ transcriber' = tr.t
                 /\ engine_calls' = engine_calls \o tr.calls
                 /\ clock' = end
                 /\ lib' = [LibCall("transcribe",
                                    [raised |-> tr.raised, value |-> tr.value], end)
                               EXCEPT !.language = language]
    /\ UNCHANGED <<files, reqs, running>>

\* unload().
LibUnload ==
    /\ lib.n < MaxCalls
    /\ transcriber' = unload(transcriber)
    /\ lib' = LibCall("unload", [raised |-> None, value |-> None], clock)
    /\ UNCHANGED <<clock, engine_calls, files, reqs, running>>

\* A read of idle_seconds.
LibIdleSeconds ==
    /\ lib.n < MaxCalls
    /\ lib' = [lib EXCEPT !.n = lib.n + 1,
                          !.idle = Append(lib.idle, idle_seconds(transcriber, clock))]
    /\ UNCHANGED <<transcriber, clock, engine_calls, files, reqs, running>>

\* Time passes between two calls.
LibWait ==
    /\ clock < MaxLibClock
    /\ clock' = clock + 1
    /\ UNCHANGED <<transcriber, engine_calls, files, reqs, running, lib>>

LibNext ==
    \/ LibLoadModel
    \/ LibEnsureLoaded
    \/ LibTranscribe
    \/ LibUnload
    \/ LibIdleSeconds
    \/ LibWait

LibSpec == Init /\ [][LibNext]_vars


\* ------------------------------------------------------------------ claims

Done(r) == reqs[r].pc = "done"

ResponseOf(r) == reqs[r].response[1]

\* Positions in engine_calls of the calls request r caused.
CallsBy(r) == {i \in 1..Len(engine_calls) : engine_calls[i].by = r}

\* Positions of the synthetic load calls, of the successful calls.
LoadCalls == {i \in 1..Len(engine_calls) : engine_calls[i].audio.silent}

OkCalls == {i \in 1..Len(engine_calls) : engine_calls[i].raised = None}

\* Requests whose handler is inside the engine call of load_model.
Loading == {r \in RequestIds : reqs[r].pc = "load"}

\* The file names of FileNames whose lower-cased suffix is not allowed,
\* written out: no name, no dot, a leading dot only, a trailing dot, .txt.
UnsupportedNames ==
    { None,
      Some(<<".", "w", "a", "v">>),
      Some(<<"c", ".", "t", "x", "t">>),
      Some(<<"w", "a", "v">>),
      Some(<<"e", ".", "w", "a", "v", ".">>) }

\* First-use requests: POST /warmup and POST /transcribe with an allowed
\* extension, sent while the model was unloaded and the engine unused, and
\* not ended by a failed read of the upload.
FirstUse ==
    {r \in RequestIds :
        /\ reqs[r].first_use
        /\ reqs[r].kind \in {"warmup", "transcribe"}
        /\ reqs[r].upload # None => reqs[r].upload[1] \notin UnsupportedNames
        /\ (Done(r) /\ reqs[r].kind = "transcribe") => CallsBy(r) # {}}

\* C1: N concurrent first-use requests against an unloaded model cause
\* exactly one engine load invocation, and each of them is answered only
\* after that load has completed: the first-use requests never start a
\* second load, and one that has its answer finds exactly one completed
\* load.
C1_SingleLoad ==
    LET started == Cardinality({i \in LoadCalls : engine_calls[i].by \in FirstUse})
                   + Cardinality(Loading \cap FirstUse)
        ended   == Cardinality({i \in LoadCalls : engine_calls[i].by \in FirstUse})
    IN  /\ started <= 1
        /\ \A r \in FirstUse : Done(r) => ended = 1

\* C2: a POST /transcribe called with a file name that has no allowed
\* suffix is answered 400 by the step that reads the name: it has no
\* temporary file, no engine call in flight and none made, then or later.
C2_UnsupportedExtension ==
    \A r \in RequestIds :
        (reqs[r].upload # None /\ reqs[r].upload[1] \in UnsupportedNames)
        => /\ Done(r)
           /\ ResponseOf(r).status_code = 400
           /\ ResponseOf(r).via = "HTTPException"
           /\ CallsBy(r) = {}
           /\ running # r
           /\ \A f \in files : f.owner # r

\* C2 witness: a request for c.txt and one without a file name have been
\* answered 400.
C2_Witness ==
    \E r, q \in RequestIds :
        /\ Done(r) /\ ResponseOf(r).status_code = 400
        /\ reqs[r].upload = Some(Some(<<"c", ".", "t", "x", "t">>))
        /\ Done(q) /\ ResponseOf(q).status_code = 400
        /\ reqs[q].upload = Some(None)


WarmupRequests == {r \in RequestIds : reqs[r].kind = "warmup" /\ reqs[r].pc # "none"}

\* C3: two POST /warmup in sequence from UNLOADED with a succeeding engine.
\* With every engine call so far successful, a completed warmup answered
\* "loaded" has the model loaded by exactly one engine call of its own,
\* last_used stamped, and every other completed warmup answered
\* "already_loaded" with no engine call; and the step that answers a warmup
\* sent to a loaded model answers "already_loaded" and changes neither the
\* transcriber nor the engine's calls nor the files.
C3_WarmupTwice ==
    /\ [](\A r \in WarmupRequests :
            ( /\ Done(r)
              /\ OkCalls = 1..Len(engine_calls)
              /\ ResponseOf(r) = JSONResponse(warmup_body("loaded")) )
            => /\ is_loaded(transcriber)
               /\ transcriber.last_used # 0
               /\ Cardinality(CallsBy(r)) = 1
               /\ CallsBy(r) \subseteq LoadCalls
               /\ \A q \in WarmupRequests \ {r} :
                     Done(q) => /\ ResponseOf(q) =
                                      JSONResponse(warmup_body("already_loaded"))
                                /\ CallsBy(q) = {})
    /\ [][\A r \in RequestIds :
            ( /\ reqs[r].pc = "arrived"
              /\ reqs[r].kind = "warmup"
              /\ is_loaded(transcriber)
              /\ reqs'[r] # reqs[r] )
            => /\ reqs'[r].pc = "done"
               /\ reqs'[r].response =
                     Some(JSONResponse(warmup_body("already_loaded")))
               /\ transcriber' = transcriber
               /\ engine_calls' = engine_calls
               /\ files' = files
               /\ running' = 0]_vars

\* C3 witness: the first warmup loaded the model, time passed, and the
\* second was answered already_loaded; one engine call was made in all.
C3_Witness ==
    /\ MaxReq >= 2
    /\ Done(1) /\ ResponseOf(1) = JSONResponse(warmup_body("loaded"))
    /\ Done(2) /\ ResponseOf(2) = JSONResponse(warmup_body("already_loaded"))
    /\ Len(engine_calls) = 1
    /\ transcriber.last_used < clock

\* Whether the upload's temporary file of request r exists.
UploadExists(r) == \E f \in files : f.owner = r /\ ~f.silent

\* A completed POST /transcribe that reached transcriber.transcribe: it was
\* answered 200, or 500 by the handler's own except clause.
ReachedTranscribe(r) ==
    /\ Done(r)
    /\ reqs[r].kind = "transcribe"
    /\ \/ ResponseOf(r).status_code = 200
       \/ ResponseOf(r).status_code = 500 /\ ResponseOf(r).via = "HTTPException"

\* C4: once a POST /transcribe that reached the transcribe call has its
\* answer, 200 or 500, the temporary file of its upload does not exist; it
\* did exist while the request was in the transcribe call.
C4_TempFileRemoved ==
    \A r \in RequestIds :
        /\ ReachedTranscribe(r) => ~UploadExists(r)
        /\ (reqs[r].kind = "transcribe" /\ reqs[r].pc \in {"load", "real"})
              => UploadFile(r, reqs[r].ext) \in files

\* C4 witness: one request answered 200 and one answered 500 after the
\* engine raised, both past their cleanup.
C4_Witness ==
    \E r, q \in RequestIds :
        /\ ReachedTranscribe(r) /\ ResponseOf(r).status_code = 200
        /\ ReachedTranscribe(q) /\ ResponseOf(q).status_code = 500
        /\ CallsBy(r) # {} /\ CallsBy(q) # {}


\* C8: whenever the model is flagged loaded, the engine has completed at
\* least one call (synthetic or real) without raising.
C8_LoadedImpliesEngineSuccess ==
    is_loaded(transcriber) => OkCalls # {}

\* C8 witness: the model is loaded after a load that raised and one that
\* did not.
C8_Witness ==
    /\ is_loaded(transcriber)
    /\ \E i \in LoadCalls : engine_calls[i].raised # None
    /\ \E i \in LoadCalls : engine_calls[i].raised = None

\* The last engine call request r caused.
LastCallBy(r) ==
    engine_calls[CHOOSE i \in CallsBy(r) : \A j \in CallsBy(r) : j <= i]

\* C9 as claimed: a POST /transcribe that reached the transcribe call is
\* answered by the way its last engine call ended.  That call returned: it is the real
\* call, and the answer is 200 with the text (stripped), segments and
\* language of the returned dict and a processing time.  It raised, in the
\* lazy load or in the real call: the answer is the handler's 500 whose
\* detail is str(e), whatever was raised.  No such request is answered in
\* another way.
C9_TranscribeResponses ==
    \A r \in RequestIds :
        (reqs[r].kind = "transcribe" /\ Done(r) /\ CallsBy(r) # {}) =>
            LET c    == LastCallBy(r)
                resp == ResponseOf(r)
            IN  IF c.raised = None
                THEN /\ ~c.audio.silent
                     /\ resp.status_code = 200 /\ resp.via = "json"
                     /\ resp.body.text = strip(get(c.value[1], "text", <<>>))
                     /\ resp.body.segments = get(c.value[1], "segments", <<>>)
                     /\ resp.body.language = get(c.value[1], "language", c.language)
                     /\ resp.body.processing_time \in 0..MaxClock
                ELSE resp = HTTPException(500, Str(c.raised[1]))

\* C9 amended: as claimed when the call returned, and when it raised an
\* instance of Exception, in the lazy load or in the real call: the
\* handler's 500 whose detail is str(e).  When it raised a BaseException
\* that is no Exception, the exception has left the handler: there is no
\* 200 and no 500 of the handler's, and the temporary file of the upload
\* is gone all the same.
C9_TranscribeResponsesOfExceptions ==
    \A r \in RequestIds :
        (reqs[r].kind = "transcribe" /\ Done(r) /\ CallsBy(r) # {}) =>
            LET c    == LastCallBy(r)
                resp == ResponseOf(r)
            IN  IF c.raised = None
                THEN /\ ~c.audio.silent
                     /\ resp.status_code = 200 /\ resp.via = "json"
                     /\ resp.body.text = strip(get(c.value[1], "text", <<>>))
                     /\ resp.body.segments = get(c.value[1], "segments", <<>>)
                     /\ resp.body.language = get(c.value[1], "language", c.language)
                     /\ resp.body.processing_time \in 0..MaxClock
                ELSE IF c.raised[1].is_exception
                THEN resp = HTTPException(500, Str(c.raised[1]))
                ELSE /\ resp.via = "escaped"
                     /\ resp.status_code \notin {200, 500}
                     /\ ~UploadExists(r)

\* C9 witness: one request answered 500 with the detail "decode failed"
\* after its lazy load raised a RuntimeError, and one whose real call, made
\* after a lazy load of its own, raised KeyboardInterrupt, which left the
\* handler.
C9_Witness ==
    \E r, q \in RequestIds :
        /\ ReachedTranscribe(r)
        /\ ResponseOf(r) = HTTPException(500, <<"decode failed">>)
        /\ LastCallBy(r).audio.silent
        /\ reqs[q].kind = "transcribe" /\ Done(q)
        /\ ResponseOf(q).via = "escaped"
        /\ CallsBy(q) # {} /\ ~LastCallBy(q).audio.silent

\* C10: the step that answers a GET /health answers 200 with status
\* "ready", the model name and model_loaded equal to the loaded flag, makes
\* no engine call, and leaves the transcriber (loaded, last_used), the
\* files and the event loop as they were.
C10_HealthReadOnly ==
    [][\A r \in RequestIds :
          ( /\ reqs[r].pc = "arrived"
            /\ reqs[r].kind = "health"
            /\ reqs'[r] # reqs[r] )
          => /\ reqs'[r].pc = "done"
             /\ reqs'[r].response[1].status_code = 200
             /\ reqs'[r].response[1].body.status = "ready"
             /\ reqs'[r].response[1].body.model = ModelName
             /\ reqs'[r].response[1].body.model_loaded = transcriber.model_loaded
             /\ transcriber' = transcriber
             /\ engine_calls' = engine_calls
             /\ files' = files
             /\ running' = running]_vars

\* C10 witness: health was answered with the model loaded, some time
\* after its last use.
C10_Witness ==
    \E r \in RequestIds :
        /\ reqs[r].kind = "health" /\ Done(r) /\ ResponseOf(r).body.model_loaded
        /\ is_loaded(transcriber) /\ transcriber.last_used < clock


\* The last state-changing call of LibSpec was a load_model or a transcribe
\* that returned without raising.
LastCallSucceeded ==
    lib.op \in {"load_model", "transcribe"} /\ lib.raised = None

\* C5: from unload() until the next state-changing call, whatever the state
\* it found and however much time passes, is_loaded is false, idle_seconds
\* is 0, and every read of idle_seconds made returned 0.
C5_UnloadResets ==
    lib.op = "unload" =>
        /\ ~is_loaded(transcriber)
        /\ idle_seconds(transcriber, clock) = 0
        /\ \A i \in 1..Len(lib.idle) : lib.idle[i] = 0

\* C5 witness: unload() found the model loaded and used; time has passed
\* since, and idle_seconds has been read.
C5_Witness ==
    /\ lib.op = "unload"
    /\ lib.pre.model_loaded /\ lib.pre.last_used # 0
    /\ clock > lib.end
    /\ Len(lib.idle) > 0

\* C6 as claimed: after any load_model() or transcribe() that returns
\* without raising, is_loaded is true and last_used is a time.time() read
\* during that call.
C6_StampedDuringCall ==
    LastCallSucceeded =>
        /\ is_loaded(transcriber)
        /\ lib.start <= transcriber.last_used
        /\ transcriber.last_used <= lib.end

\* C6 amended: after any transcribe() that returns without raising, and
\* after any load_model() called in UNLOADED that returns without raising,
\* is_loaded is true and last_used is a time.time() read during that call;
\* a load_model() called in LOADED returns with is_loaded true and
\* last_used as it was.
C6_StampedUnlessAlreadyLoaded ==
    LastCallSucceeded =>
        /\ is_loaded(transcriber)
        /\ IF lib.op = "load_model" /\ lib.pre.model_loaded
           THEN transcriber.last_used = lib.pre.last_used
           ELSE /\ lib.start <= transcriber.last_used
                /\ transcriber.last_used <= lib.end

\* C6 witness: a transcribe() in LOADED returned, called some time after
\* the previous use.
C6_Witness ==
    /\ LastCallSucceeded
    /\ lib.op = "transcribe"
    /\ lib.pre.model_loaded
    /\ lib.pre.last_used < lib.start

\* C7 as claimed: the reads of idle_seconds after a successful load_model
\* or transcribe, up to the next state-changing call, decrease toward 0.
C7_IdleDecreases ==
    LastCallSucceeded =>
        \A i, j \in 1..Len(lib.idle) :
            i < j => (lib.idle[j] <= lib.idle[i] /\ lib.idle[j] >= 0)

\* C7 amended: those reads never decrease: each is the time elapsed since
\* last_used, at least 0 and at most the time elapsed now.
C7_IdleNeverDecreases ==
    LastCallSucceeded =>
        /\ \A i, j \in 1..Len(lib.idle) : i < j => lib.idle[i] <= lib.idle[j]
        /\ \A i \in 1..Len(lib.idle) :
              lib.idle[i] >= 0 /\ lib.idle[i] <= clock - transcriber.last_used

\* C7 witness: two reads after a successful load_model, the second larger.
C7_Witness ==
    /\ LastCallSucceeded
    /\ lib.op = "load_model"
    /\ Len(lib.idle) >= 2
    /\ lib.idle[1] < lib.idle[2]


\* ------------------------------------------------- claims on the service

\* C11: a POST /transcribe that has its answer, on whatever exit path of
\* the handler (200, the 500 of an engine failure, an exception of the read
\* of the upload or of the write of its bytes), has no temporary file of
\* its upload left.
C11_EveryExitCleansUp ==
    \A r \in RequestIds :
        (reqs[r].kind = "transcribe" /\ Done(r)) => ~UploadExists(r)

\* A synthetic load call has raised and the model is not loaded.
LoadFailed ==
    /\ ~is_loaded(transcriber)
    /\ \E i \in LoadCalls : engine_calls[i].raised # None

\* --------------------------------------------- claims on the Transcriber

\* C13 as claimed: after any ensure_loaded(), in whatever state it was
\* called and however it ended, last_used is the time.time() of the call's
\* return.
C13_AlwaysStamps ==
    lib.op = "ensure_loaded" => transcriber.last_used = lib.end

\* C13 amended: after an ensure_loaded() that returns, the model is loaded
\* and last_used is the time.time() of the call's return; an
\* ensure_loaded() that raises was called in UNLOADED, and leaves the model
\* not loaded and last_used as it was.
C13_StampsUnlessLoadRaises ==
    lib.op = "ensure_loaded" =>
        IF lib.raised = None
        THEN is_loaded(transcriber) /\ transcriber.last_used = lib.end
        ELSE ~lib.pre.model_loaded /\ transcriber = lib.pre

\* C13 witness: an ensure_loaded() called in LOADED some time after the
\* previous use has returned, and last_used has moved.
C13_Witness ==
    /\ lib.op = "ensure_loaded"
    /\ lib.raised = None
    /\ lib.pre.model_loaded
    /\ lib.pre.last_used < transcriber.last_used

\* C14: after a transcribe() called in LOADED, whether its engine call
\* returned or raised and however long it took, the model is loaded and
\* last_used is the time.time() at which transcribe() was called.
C14_LoadedTranscribeStampsAttempt ==
    (lib.op = "transcribe" /\ lib.pre.model_loaded) =>
        /\ is_loaded(transcriber)
        /\ transcriber.last_used = lib.start

\* C14 witness: a transcribe() called in LOADED, some time after the
\* previous use, whose engine call took time and raised.
C14_Witness ==
    /\ lib.op = "transcribe"
    /\ lib.pre.model_loaded
    /\ lib.raised # None
    /\ lib.pre.last_used < lib.start
    /\ lib.start < lib.end

\* C15: a load_model() called in LOADED returns at once without raising,
\* makes no engine call and leaves loaded and last_used as they were; so
\* the state after it, until the next call that may change it, is the
\* state it found.
C15_LoadModelIdempotent ==
    /\ []((lib.op = "load_model" /\ lib.pre.model_loaded)
            => transcriber = lib.pre /\ lib.raised = None)
    /\ [][( /\ lib'.op = "load_model"
            /\ lib'.n = lib.n + 1
            /\ lib'.idle = <<>>
            /\ is_loaded(transcriber) )
          => /\ transcriber' = transcriber
             /\ engine_calls' = engine_calls
             /\ clock' = clock
             /\ lib'.raised = None]_vars

\* C15 witness: a successful load_model() and then, some time later, two
\* more calls the last of which is a load_model(): the engine has been
\* called once in all and last_used is the time of the first load.
C15_Witness ==
    /\ lib.op = "load_model"
    /\ lib.n >= 3
    /\ lib.pre.model_loaded
    /\ lib.pre.last_used < lib.start
    /\ transcriber = lib.pre
    /\ Len(engine_calls) = 1 /\ LoadCalls = {1}


\* ------------------------------------- claims on the service's scheduling

\* Requests whose handler is inside a blocking engine call.
InEngine == {r \in RequestIds : reqs[r].pc \in {"load", "real"}}

\* First-use requests whose handler has yet to look at the loaded flag: a
\* /warmup not yet started, a /transcribe waiting for its upload.
Waiting ==
    {q \in FirstUse :
        \/ reqs[q].pc = "arrived" /\ reqs[q].kind = "warmup"
        \/ reqs[q].pc = "reading"}

\* C16 as claimed, on the step that would make it true: while one
\* first-use request is inside the blocking load, the handler of another
\* first-use request can run, observe UNLOADED and enter a load of its own.
C16_SecondLoadCanStart ==
    \A r \in Loading \cap FirstUse : \A q \in Waiting \ {r} :
        \/ ENABLED Warmup(q)
        \/ ENABLED TranscribeRead(q)

\* C16 amended: no two requests are inside the blocking load at the same
\* time, and no two inside an engine call of any kind: the one that is
\* holds the event loop, and a first-use request that waits meanwhile has
\* not yet observed the loaded flag.
C16_LoadsNeverOverlap ==
    /\ Cardinality(Loading) <= 1
    /\ InEngine = {running} \ {0}
    /\ \A r \in Loading : \A q \in Waiting \ {r} :
          ~(ENABLED Warmup(q)) /\ ~(ENABLED TranscribeRead(q))

\* C16 witness: two first-use requests at once: a /warmup inside the
\* blocking load, and a /transcribe that has its temporary file and waits
\* for its upload to be read.
C16_Witness ==
    \E r \in Loading \cap FirstUse : \E q \in Waiting \ {r} :
        /\ reqs[r].kind = "warmup"
        /\ reqs[q].kind = "transcribe"
        /\ UploadExists(q)

\* C17: a GET /health sent while a handler is inside a blocking engine
\* call (load or transcribe) is answered before that call ends: no engine
\* call ends while such a request still waits for its answer.
C17_HealthAnsweredDuringCall ==
    [][\A q \in RequestIds :
          (reqs[q].during /\ reqs[q].pc = "arrived")
          => Len(engine_calls') = Len(engine_calls)]_vars


\* ------------------------------------- claims on the Transcriber's calls

\* C18: the engine calls one transcribe(audio, language) makes.  Called
\* in LOADED: one, on the audio and with the language it was given.
\* Called in UNLOADED: first one on the silent input with the load's own
\* language; when that call raised, no other, and transcribe raises what
\* it raised; when it returned, one more, on the audio and with the
\* language given.
C18_TranscribeEngineCalls ==
    [][( /\ lib'.op = "transcribe"
        /\ lib'.n = lib.n + 1
        /\ lib'.idle = <<>> )
       => LET new == SubSeq(engine_calls', Len(engine_calls) + 1,
                            Len(engine_calls'))
              IsReal(c) == c.audio = LibAudio /\ c.language = lib'.language
              IsLoad(c) == c.audio.silent /\ c.language = LoadLanguage
          IN  /\ SubSeq(engine_calls', 1, Len(engine_calls)) = engine_calls
              /\ IF is_loaded(transcriber)
                 THEN Len(new) = 1 /\ IsReal(new[1])
                 ELSE /\ Len(new) >= 1
                      /\ IsLoad(new[1])
                      /\ IF new[1].raised # None
                         THEN Len(new) = 1 /\ lib'.raised = new[1].raised
                         ELSE Len(new) = 2 /\ IsReal(new[2])]_vars

\* C18 witness: a transcribe(audio, "zh") called in UNLOADED has returned
\* after two engine calls, the silent load in "en" and the audio in "zh".
C18_Witness ==
    /\ lib.op = "transcribe"
    /\ ~lib.pre.model_loaded
    /\ lib.raised = None
    /\ lib.language = <<"zh">>
    /\ Len(engine_calls) = 2
    /\ engine_calls[1].audio.silent /\ engine_calls[1].language = <<"en">>
    /\ engine_calls[2].audio = LibAudio /\ engine_calls[2].language = <<"zh">>

\* C19: after any sequence of completed load_model, ensure_loaded,
\* transcribe and unload calls, whichever of their engine calls raised, the
\* model is loaded exactly when last_used is set; so while it is not loaded
\* idle_seconds is 0, at whatever time it is read.
C19_LoadedIffStamped ==
    /\ is_loaded(transcriber) <=> transcriber.last_used # 0
    /\ ~is_loaded(transcriber) =>
          \A now \in clock..(MaxLibClock + 1) : idle_seconds(transcriber, now) = 0

\* C19 witness: the model was loaded and used, then unloaded, and the load
\* of the call after that raised: it is not loaded and last_used is not
\* set, some time after the start.
C19_Witness ==
    /\ lib.op \in {"load_model", "ensure_loaded", "transcribe"}
    /\ lib.raised # None
    /\ ~lib.pre.model_loaded
    /\ OkCalls # {}
    /\ ~is_loaded(transcriber)
    /\ clock > 1

====
